---- MODULE Spec2Model ----
(***************************************************************************)
(* Model of the stake-reward program's state module                        *)
(* (src/program/src/state.rs): the StakePool accrual state, its            *)
(* update_pool / get_multiplier operations and the UserInfo ledger entry.  *)
(*                                                                         *)
(* Unsigned integers keep their width, scaled down: a u64 ranges over      *)
(* 0..U64_MAX and a u128 over 0..U128_MAX with U128_MAX = (U64_MAX+1)^2-1, *)
(* so that the product of two u64 values always fits a u128, as in Rust.   *)
(***************************************************************************)
EXTENDS Integers, Sequences, FiniteSets, TLC

\* ------------------------------------------------------------------ widths
U64_MAX == 4095
U128_MAX == U64_MAX * U64_MAX + 2 * U64_MAX
U64_MOD == U64_MAX + 1

\* ------------------------------------------------------------------ bounds
MaxBlock == 5      \* largest slot the clock reaches
MaxRank == 1       \* largest supported precision rank
MaxCalls == 2      \* number of calls made on one pool

\* staked balances and incoming amounts the calls are made with
Supplies == {0, 1, 2}
Amounts == {0, 1}
\* block heights the schedules of the initial pools are made of
StartBlocks == {0, 1}
EndBlocks == {3}
BonusBlocks == 0..3

\* ------------------------------------------------------- COption<T> values
None == [tag |-> 0, v |-> 0]
Some(x) == [tag |-> 1, v |-> x]
IsSome(o) == o.tag = 1

\* result of a checked_* operation that overflowed (Option::None)
NoneU == -1

Min(a, b) == IF a < b THEN a ELSE b
Max(a, b) == IF a > b THEN a ELSE b

\* u64::checked_mul / u64::checked_add
checked_mul(a, b) == IF a * b > U64_MAX THEN NoneU ELSE a * b
checked_add(a, b) == IF a + b > U64_MAX THEN NoneU ELSE a + b
\* u128::checked_mul / checked_div / checked_add
checked_mul128(a, b) == IF a # 0 /\ b > U128_MAX \div a THEN NoneU ELSE a * b
checked_div128(a, b) == IF b = 0 THEN NoneU ELSE a \div b
checked_add128(a, b) == IF a + b > U128_MAX THEN NoneU ELSE a + b

\* utils::get_precision_factor: rank -> power of ten, NoneU when unsupported
RECURSIVE Pow10(_)
Pow10(n) == IF n = 0 THEN 1 ELSE 10 * Pow10(n - 1)
get_precision_factor(rank) == IF rank \in 0..MaxRank THEN Pow10(rank) ELSE NoneU

\* --------------------------------------------------------------- variables
VARIABLES
    pool,             \* the StakePool record
    old,              \* the StakePool record as it was before the last call
    call,             \* the last call and its arguments
    result,           \* what the last call returned
    slot,             \* clock.slot, the current block height
    overflow_checks,  \* whether the build panics on integer overflow
    reached_end,      \* last_reward_block = end_block has held at some point
    user,             \* one UserInfo record
    payout,           \* reward paid by the last claim
    ncalls,           \* number of calls made so far
    mul,              \* value returned by the last get_multiplier call
    emitted,          \* sum of the rewards the successful calls computed
    budget,           \* what the initial schedule can emit in all
    master,           \* the MasterStaking record
    ret,              \* value returned by the last time-based call
    data,             \* the bytes of the pool account
    unpacked          \* the record the last unpack_from_slice returned

vars == <<pool, old, call, result, slot, overflow_checks, reached_end, user, payout, ncalls, mul,
          emitted, budget, master, ret, data, unpacked>>

\* ------------------------------------------------------------ StakePool ops
set_last_reward_block(self, block) == [self EXCEPT !.last_reward_block = block]

set_bonus_multiplier(self, multiplier) ==
    [self EXCEPT !.bonus_multiplier = Some(multiplier)]

\* One u64 expression of get_multiplier: ts is the sequence of the exact
\* values of its sub-expressions in evaluation order, the last one the result.
\* The wrapped result is the exact one modulo 2^64; an overflow happened iff
\* some sub-expression left the u64 range.
U64Expr(ts) ==
    [panic |-> FALSE,
     ovf |-> \E i \in 1..Len(ts) : ts[i] < 0 \/ ts[i] > U64_MAX,
     v |-> ts[Len(ts)] % U64_MOD]

ClampFrom(self, from) == IF from < self.start_block THEN self.start_block ELSE from
ClampTo(self, to) == IF self.end_block < to THEN self.end_block ELSE to

get_multiplier_badcase(self, from0, to0) ==
    LET from == ClampFrom(self, from0)
        to == ClampTo(self, to0)
        multiplier == self.bonus_multiplier.v
        start == IF IsSome(self.bonus_start_block) THEN self.bonus_start_block.v ELSE 0
        end == IF IsSome(self.bonus_end_block) THEN self.bonus_end_block.v ELSE 0
    IN  IF ~IsSome(self.bonus_multiplier)
        THEN [panic |-> TRUE, ovf |-> FALSE, v |-> 0]
        ELSE IF from < start /\ to > end
        THEN U64Expr(<<start - from, start - from + to, start - from + to - end,
                       end - start, (end - start) * multiplier,
                       start - from + to - end + (end - start) * multiplier>>)
        ELSE IF from < start /\ to > start
        THEN U64Expr(<<start - from, to - start, (to - start) * multiplier,
                       start - from + (to - start) * multiplier>>)
        ELSE IF from < end /\ to > end
        THEN U64Expr(<<to - end, end - from, (end - from) * multiplier,
                       (to - end) * multiplier + (end - from)>>)
        ELSE IF from >= start /\ to <= end
        THEN U64Expr(<<to - from, (to - from) * multiplier>>)
        ELSE U64Expr(<<to - from>>)

get_multiplier(self, from0, to0) ==
    LET from == ClampFrom(self, from0)
        to == ClampTo(self, to0)
        multiplier == self.bonus_multiplier.v
        start == IF IsSome(self.bonus_start_block) THEN self.bonus_start_block.v ELSE 0
        end == IF IsSome(self.bonus_end_block) THEN self.bonus_end_block.v ELSE 0
    IN  IF ~IsSome(self.bonus_multiplier)
        THEN [panic |-> TRUE, ovf |-> FALSE, v |-> 0]
        ELSE IF from < start /\ to > end
        THEN U64Expr(<<start - from, start - from + to, start - from + to - end,
                       end - start, (end - start) * multiplier,
                       start - from + to - end + (end - start) * multiplier>>)
        ELSE IF from < start /\ to > start
        THEN U64Expr(<<start - from, to - start, (to - start) * multiplier,
                       start - from + (to - start) * multiplier>>)
        ELSE IF from < end /\ to > end
        THEN U64Expr(<<to - end, end - from, (end - from) * multiplier,
                       to - end + (end - from) * multiplier>>)
        ELSE IF from >= start /\ to <= end
        THEN U64Expr(<<to - from, (to - from) * multiplier>>)
        ELSE U64Expr(<<to - from>>)

\* update_pool, staked_token_supply == 0 branch
ZeroSupplyAccrues(self, current_block) ==
    [set_last_reward_block(self, current_block) EXCEPT
        !.accrued_token_per_share =
            Min(U128_MAX, @ + (current_block - self.last_reward_block) * self.reward_per_block)]
ZeroSupply(self, current_block) == set_last_reward_block(self, current_block)

\* update_pool: reward = multiplier.checked_mul(reward_per_block)
RewardWrapping(self, multiplier) == (multiplier * self.reward_per_block) % U64_MOD
Reward(self, multiplier) == checked_mul(multiplier, self.reward_per_block)

\* update_pool: accrued_token_per_share.checked_add(increment)
AccruedAddWrapping(self, delta) == (self.accrued_token_per_share + delta) % (U128_MAX + 1)
AccruedAdd(self, delta) == checked_add128(self.accrued_token_per_share, delta)

\* update_pool: last_reward_block after an accrual
AdvanceUnclamped(self, current_block) == set_last_reward_block(self, current_block)
AdvanceLastRewardBlock(self, current_block) ==
    IF self.end_block > current_block
    THEN set_last_reward_block(self, current_block)
    ELSE set_last_reward_block(self, self.end_block)

\* update_pool: clearing of an expired bonus window
ClearBonusNever(self, current_block) == self
ClearBonus(self, current_block) ==
    IF IsSome(self.bonus_end_block)
          /\ self.bonus_end_block.v # 0 /\ current_block > self.bonus_end_block.v
    THEN set_bonus_multiplier(
            [self EXCEPT !.bonus_start_block = None, !.bonus_end_block = None], 1)
    ELSE self

Ret(p, r) == [pool |-> p, result |-> r]

\* StakePool::update_pool.  Returns the record as the call leaves it and the
\* call's outcome: "Ok", the error it returned, or "Panic" when it aborted.
update_pool(self, staked_token_supply, current_block, amount, checks) ==
    IF current_block <= self.last_reward_block THEN Ret(self, "Ok")
    ELSE IF staked_token_supply = 0 THEN Ret(ZeroSupply(self, current_block), "Ok")
    ELSE
    LET m == get_multiplier(self, self.last_reward_block, current_block) IN
    IF m.panic \/ (m.ovf /\ checks) THEN Ret(self, "Panic")
    ELSE
    LET reward == Reward(self, m.v) IN
    IF reward = NoneU THEN Ret(self, "RewardOverflow")
    ELSE
    LET precision_factor == get_precision_factor(self.precision_factor_rank) IN
    IF precision_factor = NoneU THEN Ret(self, "InvalidPrecisionRank")
    ELSE
    LET prod == checked_mul128(reward, precision_factor) IN
    IF prod = NoneU THEN Ret(self, "RewardMulPrecisionOverflow")
    ELSE
    LET quot == checked_div128(prod, staked_token_supply) IN
    IF quot = NoneU THEN Ret(self, "RewardMulPrecisionDivSupplyOverflow")
    ELSE
    LET acc == AccruedAdd(self, quot) IN
    IF acc = NoneU THEN Ret(self, "AccuredTokenPerShareOverflow")
    ELSE
    LET self1 == [self EXCEPT !.accrued_token_per_share = acc]
        ts == checked_add(self1.total_supply, amount)
    IN
    IF ts = NoneU THEN Ret(self1, "TotalSupplyOverflow")
    ELSE
    LET self2 == [self1 EXCEPT !.total_supply = ts]
        self3 == AdvanceLastRewardBlock(self2, current_block)
    IN Ret(ClearBonus(self3, current_block), "Ok")

\* The reward a call of update_pool computes (state.rs:241-245): none when the
\* call returns early or fails.
RewardOf(self, staked_token_supply, current_block, r) ==
    IF r.result = "Ok" /\ current_block > self.last_reward_block /\ staked_token_supply # 0
    THEN Reward(self, get_multiplier(self, self.last_reward_block, current_block).v)
    ELSE 0

\* reward_per_block times get_multiplier(start_block, end_block), for a pool
\* that starts at last_reward_block = start_block with a bonus multiplier;
\* NoneU for the other pools.
BudgetOf(self) ==
    IF self.last_reward_block = self.start_block /\ IsSome(self.bonus_multiplier)
    THEN self.reward_per_block * get_multiplier(self, self.start_block, self.end_block).v
    ELSE NoneU

\* ------------------------------------------------------------ initial pools
BonusAllPresent(p) ==
    IsSome(p.bonus_multiplier) /\ IsSome(p.bonus_start_block) /\ IsSome(p.bonus_end_block)
BonusAllAbsent(p) ==
    ~IsSome(p.bonus_multiplier) /\ ~IsSome(p.bonus_start_block) /\ ~IsSome(p.bonus_end_block)

\* A pool as initialization leaves it: schedule ordered, the bonus window all
\* present and nested inside the schedule, or all absent.
WellFormed(p) ==
    /\ p.start_block <= p.last_reward_block /\ p.last_reward_block <= p.end_block
    /\ \/ BonusAllAbsent(p)
       \/ /\ BonusAllPresent(p)
          /\ p.bonus_multiplier.v >= 1
          /\ p.start_block <= p.bonus_start_block.v
          /\ p.bonus_start_block.v <= p.bonus_end_block.v
          /\ p.bonus_end_block.v <= p.end_block

OptionOf(S) == {None} \cup {Some(x) : x \in S}

\* The schedules and bonus windows of the initial pools.
Schedules ==
    {p \in [bonus_multiplier : OptionOf({3}),
            bonus_start_block : OptionOf(BonusBlocks),
            bonus_end_block : OptionOf(BonusBlocks),
            last_reward_block : StartBlocks \cup EndBlocks,
            start_block : StartBlocks,
            end_block : EndBlocks] : WellFormed(p)}

\* The amounts of the initial pools: small ones, and each field in turn at
\* the edge of its range.
Balances ==
    LET A(rpb, acc, ts, rank) ==
            [reward_per_block |-> rpb, accrued_token_per_share |-> acc,
             total_supply |-> ts, precision_factor_rank |-> rank]
    IN  {A(1, 0, 0, MaxRank), A(0, 5, 1, 0), A(U64_MAX, 0, 0, 0),
         A(2, U128_MAX - 1, 0, MaxRank), A(1, 0, U64_MAX, 0),
         A(1, 0, 0, MaxRank + 1)}

PoolInit == {s @@ a : s \in Schedules, a \in Balances}

NoCall == [op |-> "init", supply |-> 0, amount |-> 0, from |-> 0, to |-> 0,
           debt |-> 0, settle |-> "Ok", now |-> 0, shadowed |-> FALSE]
NoMaster == [pool_counter |-> 0]
NoUser == [amount |-> 0, reward_debt |-> 0]
NoMul == [panic |-> FALSE, ovf |-> FALSE, v |-> 0]

Init ==
    /\ pool \in PoolInit
    /\ old = pool
    /\ call = NoCall
    /\ result = "Ok"
    /\ slot = 0
    /\ overflow_checks \in BOOLEAN
    /\ reached_end = (pool.last_reward_block = pool.end_block)
    /\ user = NoUser
    /\ payout = 0
    /\ ncalls = 0
    /\ mul = NoMul
    /\ emitted = 0
    /\ budget = BudgetOf(pool)
    /\ master = NoMaster
    /\ ret = 0
    /\ data = <<>>
    /\ unpacked = NoneU

\* --------------------------------------------------------------- the calls
\* The clock moves to block b and update_pool runs with the pool's staked
\* balance and the incoming amount.
UpdatePool(b, supply, amount) ==
    LET r == update_pool(pool, supply, b, amount, overflow_checks) IN
    /\ ncalls < MaxCalls
    /\ ncalls' = ncalls + 1
    /\ slot' = b
    /\ old' = pool
    /\ pool' = r.pool
    /\ result' = r.result
    /\ call' = [NoCall EXCEPT !.op = "update_pool", !.supply = supply, !.amount = amount]
    /\ reached_end' = (reached_end \/ r.pool.last_reward_block = r.pool.end_block)
    /\ emitted' = emitted + RewardOf(pool, supply, b, r)
    /\ UNCHANGED <<overflow_checks, user, payout, mul, budget, master, ret, data, unpacked>>

Next ==
    \E b \in slot..MaxBlock, supply \in Supplies, amount \in Amounts :
        UpdatePool(b, supply, amount)

Spec == Init /\ [][Next]_vars

\* ------------------------------------------------------ the staker ledger
\* UserInfo::set_reward_debt(value: u64)
set_reward_debt(self, value) == [self EXCEPT !.reward_debt = value]

\* The u128 index as the u64 value set_reward_debt takes: the debt-overflow
\* error when it does not fit.
DebtOf(index) == IF index > U64_MAX THEN NoneU ELSE index

\* claimable: amount * (index - reward_debt) / precision_factor, NoneU
\* (RewardOverflow) when the multiplication overflows.
claimable(self, index, precision_factor) ==
    LET prod == checked_mul128(self.amount, index - self.reward_debt) IN
    IF prod = NoneU THEN NoneU ELSE prod \div precision_factor

LedgerPools ==
    {[bonus_multiplier |-> Some(3), bonus_start_block |-> Some(1),
      bonus_end_block |-> Some(2), last_reward_block |-> 0,
      start_block |-> 0, end_block |-> 3,
      reward_per_block |-> rpb, accrued_token_per_share |-> acc,
      total_supply |-> 0, precision_factor_rank |-> rank] :
        rpb \in {1}, rank \in {0, MaxRank},
        acc \in {0, U64_MAX - 1, U64_MAX + 10, U128_MAX - 1}}

InitLedger ==
    /\ pool \in LedgerPools
    /\ old = pool
    /\ call = NoCall
    /\ result = "Ok"
    /\ slot = 0
    /\ overflow_checks \in BOOLEAN
    /\ reached_end = FALSE
    /\ user = NoUser
    /\ payout = 0
    /\ ncalls = 0
    /\ mul = NoMul
    /\ emitted = 0
    /\ budget = BudgetOf(pool)
    /\ master = NoMaster
    /\ ret = 0
    /\ data = <<>>
    /\ unpacked = NoneU

\* stake: settle the pool, then set reward_debt to the refreshed index and add
\* the staked amount.
Stake(b, supply, amount) ==
    LET r == update_pool(pool, supply, b, amount, overflow_checks)
        debt == DebtOf(r.pool.accrued_token_per_share)
        amt == checked_add(user.amount, amount)
        res == IF r.result # "Ok" THEN r.result
               ELSE IF debt = NoneU THEN "DebtOverflow"
               ELSE IF amt = NoneU THEN "Overflow" ELSE "Ok"
    IN
    /\ ncalls < MaxCalls
    /\ ncalls' = ncalls + 1
    /\ slot' = b
    /\ old' = pool
    /\ pool' = r.pool
    /\ result' = res
    /\ user' = IF res = "Ok" THEN set_reward_debt([user EXCEPT !.amount = amt], debt)
                ELSE user
    /\ call' = [NoCall EXCEPT !.op = "stake", !.supply = supply, !.amount = amount,
                              !.debt = user.reward_debt, !.settle = r.result]
    /\ reached_end' = (reached_end \/ r.pool.last_reward_block = r.pool.end_block)
    /\ emitted' = emitted + RewardOf(pool, supply, b, r)
    /\ UNCHANGED <<overflow_checks, payout, mul, budget, master, ret, data, unpacked>>

\* claim: settle the pool, pay the claimable reward, then set reward_debt to
\* the refreshed index.
Claim(b, supply) ==
    LET r == update_pool(pool, supply, b, 0, overflow_checks)
        precision_factor == get_precision_factor(pool.precision_factor_rank)
        pay == claimable(user, r.pool.accrued_token_per_share, precision_factor)
        debt == DebtOf(r.pool.accrued_token_per_share)
        res == IF r.result # "Ok" THEN r.result
               ELSE IF pay = NoneU THEN "RewardOverflow"
               ELSE IF debt = NoneU THEN "DebtOverflow" ELSE "Ok"
    IN
    /\ ncalls < MaxCalls
    /\ ncalls' = ncalls + 1
    /\ slot' = b
    /\ old' = pool
    /\ pool' = r.pool
    /\ result' = res
    /\ payout' = IF res = "Ok" THEN pay ELSE 0
    /\ user' = IF res = "Ok" THEN set_reward_debt(user, debt) ELSE user
    /\ call' = [NoCall EXCEPT !.op = "claim", !.supply = supply,
                              !.debt = user.reward_debt, !.settle = r.result]
    /\ reached_end' = (reached_end \/ r.pool.last_reward_block = r.pool.end_block)
    /\ emitted' = emitted + RewardOf(pool, supply, b, r)
    /\ UNCHANGED <<overflow_checks, mul, budget, master, ret, data, unpacked>>

NextLedger ==
    \/ \E b \in slot..MaxBlock, supply \in Supplies, amount \in Amounts :
            UpdatePool(b, supply, amount)
    \/ \E b \in slot..MaxBlock, supply \in Supplies, amount \in {1, U64_MAX} :
            Stake(b, supply, amount)
    \/ \E b \in slot..MaxBlock, supply \in Supplies : Claim(b, supply)

SpecLedger == InitLedger /\ [][NextLedger]_vars

\* ------------------------------------------- get_multiplier on its own
\* Block heights the multiplier is evaluated on: small ones and the top of
\* the u64 range.
MaxMulBlock == 4
MulBlocks == 0..MaxMulBlock \cup {U64_MAX - 1, U64_MAX}

MulPools ==
    {[bonus_multiplier |-> Some(m), bonus_start_block |-> Some(bs),
      bonus_end_block |-> Some(be), last_reward_block |-> s,
      start_block |-> s, end_block |-> e,
      reward_per_block |-> 1, accrued_token_per_share |-> 0,
      total_supply |-> 0, precision_factor_rank |-> 0] :
        m \in 1..3, s \in MulBlocks, bs \in MulBlocks, be \in MulBlocks,
        e \in MulBlocks}

InitMul ==
    /\ pool \in {p \in MulPools : WellFormed(p)}
    /\ old = pool
    /\ call = NoCall
    /\ result = "Ok"
    /\ slot = 0
    /\ overflow_checks \in BOOLEAN
    /\ reached_end = FALSE
    /\ user = NoUser
    /\ payout = 0
    /\ ncalls = 0
    /\ mul = NoMul
    /\ emitted = 0
    /\ budget = BudgetOf(pool)
    /\ master = NoMaster
    /\ ret = 0
    /\ data = <<>>
    /\ unpacked = NoneU

GetMultiplier(from, to) ==
    /\ mul' = get_multiplier(pool, from, to)
    /\ call' = [NoCall EXCEPT !.op = "get_multiplier", !.from = from, !.to = to]
    /\ UNCHANGED <<pool, old, result, slot, overflow_checks, reached_end, user,
                   payout, ncalls, emitted, budget, master, ret, data, unpacked>>

NextMul == \E from \in MulBlocks, to \in MulBlocks : from <= to /\ GetMultiplier(from, to)

SpecMul == InitMul /\ [][NextMul]_vars

\* ------------------------------------------------------- the pool registry
\* MasterStaking::increase_counter
increase_counter_wrapping(self) ==
    [master |-> [self EXCEPT !.pool_counter = (@ + 1) % U64_MOD], result |-> "Ok"]
increase_counter(self) ==
    LET c == checked_add(self.pool_counter, 1) IN
    IF c = NoneU THEN [master |-> self, result |-> "PoolCounterOverflow"]
    ELSE [master |-> [self EXCEPT !.pool_counter = c], result |-> "Ok"]

\* A pool with every field of StakePool; the time-based fields are filled in
\* by the model that uses them.
BasePool ==
    [pool_index |-> 0, owner |-> [i \in 1..32 |-> 0], mint |-> [i \in 1..32 |-> 0],
     is_initialized |-> 1, precision_factor_rank |-> 0,
     bonus_multiplier |-> None, bonus_start_block |-> None, bonus_end_block |-> None,
     last_reward_block |-> 0, start_block |-> 0, end_block |-> 3,
     reward_amount |-> 0, reward_per_block |-> 1, accrued_token_per_share |-> 0,
     period_finish |-> 0, reward_rate |-> 0, last_update_time |-> 0,
     reward_per_token_stored |-> 0, total_supply |-> 0]

InitRegistry ==
    /\ master = NoMaster
    /\ pool = BasePool
    /\ old = pool
    /\ call = NoCall
    /\ result = "Ok"
    /\ slot = 0
    /\ overflow_checks \in BOOLEAN
    /\ reached_end = FALSE
    /\ user = NoUser
    /\ payout = 0
    /\ ncalls = 0
    /\ mul = NoMul
    /\ emitted = 0
    /\ budget = NoneU
    /\ ret = 0
    /\ data = <<>>
    /\ unpacked = NoneU

IncreaseCounter ==
    LET r == increase_counter(master) IN
    /\ master' = r.master
    /\ result' = r.result
    /\ call' = [NoCall EXCEPT !.op = "increase_counter"]
    /\ UNCHANGED <<pool, old, slot, overflow_checks, reached_end, user, payout, ncalls,
                   mul, emitted, budget, ret, data, unpacked>>

NextRegistry == IncreaseCounter

SpecRegistry == InitRegistry /\ [][NextRegistry]_vars

\* ------------------------------------------------- the time-based functions
\* StakePool::get_last_time_reward_applicable
get_last_time_reward_applicable(self, now) ==
    LET period_finish == self.period_finish IN
    IF now < period_finish THEN period_finish ELSE now

\* a.checked_sub(b) on u64
checked_sub(a, b) == IF a < b THEN NoneU ELSE a - b

\* StakePool::get_reward_per_token: the value returned, NoneU for the
\* RewardOverflow error.
get_reward_per_token(self, now) ==
    LET total_supply == self.total_supply
        reward_per_token_stored == self.reward_per_token_stored
        last_update_time == self.last_update_time
        reward_rate == self.reward_rate
        precision_factor == self.precision_factor_rank
        last_time_reward_applicable == get_last_time_reward_applicable(self, now)
        elapsed == checked_sub(last_time_reward_applicable, last_update_time)
        byRate == IF elapsed = NoneU THEN NoneU ELSE checked_mul(elapsed, reward_rate)
        byFactor == IF byRate = NoneU THEN NoneU ELSE checked_mul(byRate, precision_factor)
        quot == IF byFactor = NoneU THEN NoneU ELSE byFactor \div total_supply
    IN  IF total_supply = 0 THEN reward_per_token_stored
        ELSE IF quot = NoneU THEN NoneU
        ELSE checked_add128(reward_per_token_stored, quot)

MaxTime == 4
TimePools ==
    {[BasePool EXCEPT !.period_finish = pf, !.last_update_time = lut, !.reward_rate = rate,
                      !.reward_per_token_stored = stored, !.total_supply = ts,
                      !.precision_factor_rank = rank] :
        pf \in {0, 2, MaxTime}, lut \in {0, 1, 3}, rate \in {0, 1, 2, U64_MAX},
        stored \in {0, 5, U128_MAX}, ts \in {0, 1, 3}, rank \in 0..MaxRank}

InitTime ==
    /\ pool \in TimePools
    /\ old = pool
    /\ call = NoCall
    /\ result = "Ok"
    /\ slot = 0
    /\ overflow_checks \in BOOLEAN
    /\ reached_end = FALSE
    /\ user = NoUser
    /\ payout = 0
    /\ ncalls = 0
    /\ mul = NoMul
    /\ emitted = 0
    /\ budget = NoneU
    /\ master = NoMaster
    /\ ret = 0
    /\ data = <<>>
    /\ unpacked = NoneU

GetLastTimeRewardApplicable(now) ==
    /\ ret' = get_last_time_reward_applicable(pool, now)
    /\ result' = "Ok"
    /\ call' = [NoCall EXCEPT !.op = "get_last_time_reward_applicable", !.now = now]
    /\ UNCHANGED <<pool, old, slot, overflow_checks, reached_end, user, payout, ncalls,
                   mul, emitted, budget, master, data, unpacked>>

GetRewardPerToken(now) ==
    LET r == get_reward_per_token(pool, now) IN
    /\ ret' = IF r = NoneU THEN 0 ELSE r
    /\ result' = IF r = NoneU THEN "RewardOverflow" ELSE "Ok"
    /\ call' = [NoCall EXCEPT !.op = "get_reward_per_token", !.now = now]
    /\ UNCHANGED <<pool, old, slot, overflow_checks, reached_end, user, payout, ncalls,
                   mul, emitted, budget, master, data, unpacked>>

NextTime ==
    \/ \E now \in 0..MaxTime : GetLastTimeRewardApplicable(now)
    \/ \E now \in 0..MaxTime : GetRewardPerToken(now)

SpecTime == InitTime /\ [][NextTime]_vars

\* ------------------------------------------------------ Pack for StakePool
RECURSIVE to_le_bytes(_, _)
\* v.to_le_bytes() for a value of n bytes
to_le_bytes(v, n) ==
    IF n = 0 THEN <<>> ELSE <<v % 256>> \o to_le_bytes(v \div 256, n - 1)

RECURSIVE from_le_bytes(_)
\* from_le_bytes(bytes)
from_le_bytes(bytes) ==
    IF bytes = <<>> THEN 0 ELSE Head(bytes) + 256 * from_le_bytes(Tail(bytes))

\* what unpack_coption yields for Err(InvalidAccountData)
InvalidOption == [tag |-> 2, v |-> 0]

\* unpack_coption_u8 / unpack_coption_u64
unpack_coption(src) ==
    LET tag == SubSeq(src, 1, 4)
        body == SubSeq(src, 5, Len(src))
    IN  IF tag = <<0, 0, 0, 0>> THEN None
        ELSE IF tag = <<1, 0, 0, 0>> THEN Some(from_le_bytes(body))
        ELSE InvalidOption

\* pack_coption_u8 / pack_coption_u64: dst after the call; None leaves the
\* body bytes as they were.
pack_coption(src, dst) ==
    IF IsSome(src) THEN <<1, 0, 0, 0>> \o to_le_bytes(src.v, Len(dst) - 4)
    ELSE <<0, 0, 0, 0>> \o SubSeq(dst, 5, Len(dst))

\* the widths array_refs! splits the 215 bytes into
Sizes == <<8, 32, 32, 1, 1, 5, 12, 12, 8, 8, 8, 8, 8, 16, 8, 16, 8, 16, 8>>
RECURSIVE Offset(_)
Offset(k) == IF k = 1 THEN 0 ELSE Offset(k - 1) + Sizes[k - 1]
\* the k-th array reference into src
Ref(src, k) == SubSeq(src, Offset(k) + 1, Offset(k) + Sizes[k])
PoolLen == 215

\* StakePool::unpack_from_slice
unpack_from_slice(src) ==
    LET bonus_multiplier == unpack_coption(Ref(src, 6))
        bonus_start_block == unpack_coption(Ref(src, 7))
        bonus_end_block == unpack_coption(Ref(src, 8))
    IN  IF InvalidOption \in {bonus_multiplier, bonus_start_block, bonus_end_block}
        THEN [pool |-> NoneU, result |-> "InvalidAccountData"]
        ELSE [result |-> "Ok",
              pool |-> [pool_index |-> from_le_bytes(Ref(src, 1)),
                        owner |-> Ref(src, 2),
                        mint |-> Ref(src, 3),
                        is_initialized |-> from_le_bytes(Ref(src, 4)),
                        precision_factor_rank |-> from_le_bytes(Ref(src, 5)),
                        bonus_multiplier |-> bonus_multiplier,
                        bonus_start_block |-> bonus_start_block,
                        bonus_end_block |-> bonus_end_block,
                        last_reward_block |-> from_le_bytes(Ref(src, 9)),
                        start_block |-> from_le_bytes(Ref(src, 10)),
                        end_block |-> from_le_bytes(Ref(src, 11)),
                        reward_amount |-> from_le_bytes(Ref(src, 12)),
                        reward_per_block |-> from_le_bytes(Ref(src, 13)),
                        accrued_token_per_share |-> from_le_bytes(Ref(src, 14)),
                        period_finish |-> from_le_bytes(Ref(src, 15)),
                        reward_rate |-> from_le_bytes(Ref(src, 16)),
                        last_update_time |-> from_le_bytes(Ref(src, 17)),
                        reward_per_token_stored |-> from_le_bytes(Ref(src, 18)),
                        total_supply |-> from_le_bytes(Ref(src, 19))]]

\* StakePool::pack_into_slice: dst after the call.  The four time-based
\* destinations carry the names of the fields the following let binds, so
\* their stores reach dst only when the destination names are read as such
\* (shadowed = FALSE); the 19th reference has no name and is never stored to.
pack_into_slice(self, dst, shadowed) ==
    to_le_bytes(self.pool_index, 8) \o self.owner \o self.mint
    \o to_le_bytes(self.is_initialized, 1) \o to_le_bytes(self.precision_factor_rank, 1)
    \o pack_coption(self.bonus_multiplier, Ref(dst, 6))
    \o pack_coption(self.bonus_start_block, Ref(dst, 7))
    \o pack_coption(self.bonus_end_block, Ref(dst, 8))
    \o to_le_bytes(self.last_reward_block, 8) \o to_le_bytes(self.start_block, 8)
    \o to_le_bytes(self.end_block, 8) \o to_le_bytes(self.reward_amount, 8)
    \o to_le_bytes(self.reward_per_block, 8)
    \o to_le_bytes(self.accrued_token_per_share, 16)
    \o (IF shadowed
        THEN Ref(dst, 15) \o Ref(dst, 16) \o Ref(dst, 17) \o Ref(dst, 18)
        ELSE to_le_bytes(self.period_finish, 8) \o to_le_bytes(self.reward_rate, 16)
             \o to_le_bytes(self.last_update_time, 8)
             \o to_le_bytes(self.reward_per_token_stored, 16))
    \o Ref(dst, 19)

\* The records that are packed: every combination of present and absent
\* bonus options, and the other fields at zero, small and largest values.
PackPools ==
    {[BasePool EXCEPT !.bonus_multiplier = bm, !.bonus_start_block = bs,
                      !.bonus_end_block = be, !.pool_index = x, !.last_reward_block = x,
                      !.reward_amount = x, !.accrued_token_per_share = x * x + 2 * x,
                      !.period_finish = x, !.reward_rate = x * x + 2 * x,
                      !.total_supply = ts,
                      !.owner = [i \in 1..32 |-> (i * x) % 256]] :
        bm \in OptionOf({255}), bs \in OptionOf({U64_MAX}), be \in OptionOf({2}),
        x \in {0, U64_MAX}, ts \in {0, 1, U64_MAX}}

\* presence tags an account can hold
Tags == {<<0, 0, 0, 0>>, <<1, 0, 0, 0>>, <<1, 0, 0, 1>>}

InitPack ==
    /\ pool \in PackPools
    /\ data = [i \in 1..PoolLen |-> 0]
    /\ unpacked = NoneU
    /\ old = pool
    /\ call = NoCall
    /\ result = "Ok"
    /\ slot = 0
    /\ overflow_checks \in BOOLEAN
    /\ reached_end = FALSE
    /\ user = NoUser
    /\ payout = 0
    /\ ncalls = 0
    /\ mul = NoMul
    /\ emitted = 0
    /\ budget = NoneU
    /\ master = NoMaster
    /\ ret = 0

PackIntoSlice(shadowed) ==
    /\ data' = pack_into_slice(pool, data, shadowed)
    /\ result' = "Ok"
    /\ call' = [NoCall EXCEPT !.op = "pack_into_slice", !.shadowed = shadowed]
    /\ UNCHANGED <<pool, old, slot, overflow_checks, reached_end, user, payout, ncalls,
                   mul, emitted, budget, master, ret, unpacked>>

UnpackFromSlice ==
    LET r == unpack_from_slice(data) IN
    /\ unpacked' = r.pool
    /\ result' = r.result
    /\ call' = [NoCall EXCEPT !.op = "unpack_from_slice"]
    /\ UNCHANGED <<pool, old, slot, overflow_checks, reached_end, user, payout, ncalls,
                   mul, emitted, budget, master, ret, data>>

\* The account arrives with the presence tag of its k-th field set to tag.
SetTag(k, tag) ==
    /\ call.op # "set_tag"
    /\ data' = SubSeq(data, 1, Offset(k)) \o tag
                 \o SubSeq(data, Offset(k) + 5, PoolLen)
    /\ call' = [NoCall EXCEPT !.op = "set_tag"]
    /\ UNCHANGED <<pool, old, result, slot, overflow_checks, reached_end, user, payout,
                   ncalls, mul, emitted, budget, master, ret, unpacked>>

NextPack ==
    \/ \E shadowed \in BOOLEAN : PackIntoSlice(shadowed)
    \/ UnpackFromSlice
    \/ \E k \in 6..8, tag \in Tags : SetTag(k, tag)

SpecPack == InitPack /\ [][NextPack]_vars

\* ------------------------------------------------------------------ claims
Settled == call.op = "update_pool"
\* the last call went past both early returns of update_pool
Accruing == Settled /\ slot > old.last_reward_block /\ call.supply # 0
\* the multiplier the last call computed
Elapsed == get_multiplier(old, old.last_reward_block, slot)
Aborted(m) == m.panic \/ (m.ovf /\ overflow_checks)

\* C1: accrued_token_per_share after an update_pool call is never below its
\* value before the call, whether the call succeeds or fails.
C1_AccruedNeverDecreases ==
    Settled => pool.accrued_token_per_share >= old.accrued_token_per_share
C1_Witness ==
    /\ Settled /\ result = "Ok"
    /\ pool.accrued_token_per_share > old.accrued_token_per_share

\* C2: last_reward_block <= end_block in every reachable state.
C2_LastRewardBlockWithinEnd == pool.last_reward_block <= pool.end_block

\* C3: an update_pool call repeated with the same arguments right after a
\* successful one leaves the whole pool record as the first call left it.
C3_Idempotent ==
    [][(Settled /\ result = "Ok" /\ call' = call /\ slot' = slot) => pool' = pool]_vars

\* C4: an update_pool call with current_block > last_reward_block and a zero
\* staked supply succeeds, sets last_reward_block to current_block and leaves
\* accrued_token_per_share unchanged.
C4_ZeroSupplyFreeze ==
    (Settled /\ slot > old.last_reward_block /\ call.supply = 0) =>
        /\ result = "Ok"
        /\ pool.last_reward_block = slot
        /\ pool.accrued_token_per_share = old.accrued_token_per_share
C4_Witness ==
    /\ Settled /\ slot > old.last_reward_block /\ call.supply = 0
    /\ old.reward_per_block > 0
    /\ pool.last_reward_block = slot

\* The blocks of the clamped interval [max(from,start_block), min(to,end_block))
\* counted once each, those inside [bonus_start, bonus_end) m times.
Span(a, b) == IF b > a THEN b - a ELSE 0
WeightedBlocks(p, from, to) ==
    LET a == Max(from, p.start_block)
        b == Min(to, p.end_block)
    IN  Span(a, b) + (p.bonus_multiplier.v - 1)
                        * Span(Max(a, p.bonus_start_block.v), Min(b, p.bonus_end_block.v))
ExamplePool ==
    [bonus_multiplier |-> Some(3), bonus_start_block |-> Some(100),
     bonus_end_block |-> Some(200), last_reward_block |-> 0,
     start_block |-> 0, end_block |-> 1000,
     reward_per_block |-> 1, accrued_token_per_share |-> 0,
     total_supply |-> 0, precision_factor_rank |-> 0]
Returns(x) == [panic |-> FALSE, ovf |-> FALSE, v |-> x]
Examples(whole) ==
    /\ get_multiplier(ExamplePool, 50, 150) = Returns(200)
    /\ get_multiplier(ExamplePool, 150, 250) = Returns(200)
    /\ get_multiplier(ExamplePool, 0, 1000) = Returns(whole)
MulCalled == call.op = "get_multiplier"

\* C5 as stated: for every from <= to, get_multiplier(from, to) returns the
\* weighted number of blocks of the clamped interval; the three examples hold.
C5_MultiplierAlways ==
    MulCalled =>
        /\ ~Aborted(mul) /\ mul.v = WeightedBlocks(pool, call.from, call.to)
        /\ Examples(1100)
\* C5 amended: the same when the clamped interval is ordered
\* (max(from,start_block) <= min(to,end_block)) and the weighted number fits a
\* u64, except that a build with overflow checks aborts when an intermediate
\* sum leaves the u64 range; the examples hold with get_multiplier(0,1000) =
\* 100 + 100*3 + 800 = 1200.
C5_Multiplier ==
    /\ Examples(1200)
    /\ (MulCalled /\ ClampFrom(pool, call.from) <= ClampTo(pool, call.to)
            /\ WeightedBlocks(pool, call.from, call.to) <= U64_MAX)
        => /\ ~mul.panic
           /\ \/ mul.v = WeightedBlocks(pool, call.from, call.to) /\ ~Aborted(mul)
              \/ overflow_checks /\ mul.ovf
C5_Witness ==
    /\ MulCalled /\ ~Aborted(mul)
    /\ call.from < pool.bonus_start_block.v /\ call.to > pool.bonus_end_block.v
    /\ pool.bonus_start_block.v < pool.bonus_end_block.v
    /\ call.to <= pool.end_block /\ call.from >= pool.start_block
    /\ pool.bonus_multiplier.v = 3
    /\ mul.v = WeightedBlocks(pool, call.from, call.to)
    /\ mul.v > call.to - call.from

\* C6: when the multiplier an update_pool call computed times reward_per_block
\* exceeds the u64 range, the call fails with RewardOverflow and commits
\* nothing: no wrapped or truncated reward reaches the pool.
C6_RewardOverflowFatal ==
    (Accruing /\ ~Aborted(Elapsed) /\ Elapsed.v * old.reward_per_block > U64_MAX) =>
        result = "RewardOverflow" /\ pool = old
C6_Witness ==
    /\ Accruing /\ ~Aborted(Elapsed)
    /\ old.reward_per_block = U64_MAX /\ Elapsed.v >= 2
    /\ result = "RewardOverflow"

\* C7: an update_pool call that returns an error leaves every field of the
\* pool record as it was before the call.
C7_AtomicFailure ==
    (Settled /\ result \notin {"Ok", "Panic"}) => pool = old

\* C8: a staker who stakes A when the index is I0 gets reward_debt = I0; a
\* claim at index I1 >= I0 pays A*(I1-I0)/precision_factor or fails with
\* RewardOverflow, sets reward_debt to I1, and an immediate second claim
\* against I1 is 0: for every A of the u64 range and every I0, I1 of the u128
\* range.
C8_DebtConservation ==
    LET I1 == pool.accrued_token_per_share
        pf == get_precision_factor(pool.precision_factor_rank)
    IN
    /\ (call.op = "stake" /\ call.settle = "Ok" /\ result # "Overflow") =>
            result = "Ok" /\ user.reward_debt = I1
    /\ (call.op = "claim" /\ call.settle = "Ok") =>
            \/ result = "RewardOverflow"
                  /\ checked_mul128(user.amount, I1 - call.debt) = NoneU
            \/ /\ result = "Ok"
               /\ payout = (user.amount * (I1 - call.debt)) \div pf
               /\ user.reward_debt = I1
               /\ claimable(user, I1, pf) = 0

\* C9: once last_reward_block = end_block has held, every later update_pool
\* call with current_block > end_block leaves accrued_token_per_share unchanged.
C9_NoAccrualAfterEnd ==
    [][(reached_end /\ slot' > pool.end_block) =>
            pool'.accrued_token_per_share = pool.accrued_token_per_share]_vars

\* C10 as stated: every successful update_pool call with current_block >
\* bonus_end_block on a pool with a bonus window leaves the window cleared and
\* the multiplier 1, whatever the staked supply and last_reward_block.
BonusCleared(p) ==
    /\ p.bonus_start_block = None /\ p.bonus_end_block = None
    /\ p.bonus_multiplier = Some(1)
C10_BonusExpiryAlways ==
    (Settled /\ result = "Ok" /\ BonusAllPresent(old) /\ slot > old.bonus_end_block.v)
        => BonusCleared(pool)
\* C10 amended: the same for the calls that pass both early returns
\* (current_block > last_reward_block, staked supply nonzero) on a pool whose
\* bonus_end_block is nonzero.
C10_BonusExpiry ==
    (Accruing /\ result = "Ok" /\ BonusAllPresent(old)
        /\ old.bonus_end_block.v # 0 /\ slot > old.bonus_end_block.v)
        => BonusCleared(pool)
C10_Witness ==
    /\ Accruing /\ result = "Ok" /\ BonusAllPresent(old)
    /\ old.bonus_multiplier.v = 3
    /\ old.bonus_end_block.v # 0 /\ slot > old.bonus_end_block.v
    /\ BonusCleared(pool)

\* C11: the three bonus fields are all present or all absent in every state
\* update_pool calls reach from a pool where they are.
C11_BonusAllOrNothing == BonusAllPresent(pool) \/ BonusAllAbsent(pool)

\* C15: every successful update_pool call with current_block >
\* last_reward_block adds exactly the incoming amount to total_supply,
\* whatever the staked supply, zero included.
C15_SupplyAccounting ==
    (Settled /\ result = "Ok" /\ slot > old.last_reward_block) =>
        pool.total_supply = old.total_supply + call.amount

\* C16: on a pool whose bonus fields are all absent get_multiplier returns
\* min(to,end_block) - max(from,start_block), and an update_pool call with a
\* nonzero supply and current_block > last_reward_block does not abort.
C16_AbsentBonusRateOne ==
    (Accruing /\ BonusAllAbsent(old)) =>
        /\ ~Elapsed.panic
        /\ Elapsed.v = Min(slot, old.end_block)
                          - Max(old.last_reward_block, old.start_block)
        /\ result # "Panic"

\* C17: in every update_pool call that evaluates get_multiplier the clamped
\* from is <= the clamped to and no u64 operation of get_multiplier overflows.
C17_NoWraparound ==
    (Accruing /\ ~Elapsed.panic) =>
        /\ ClampFrom(old, old.last_reward_block) <= ClampTo(old, slot)
        /\ ~Elapsed.ovf

\* The multiplier an update_pool call on p at block b with a nonzero supply
\* uses: none when the call returns early.
Used(p, b) ==
    IF b > p.last_reward_block THEN get_multiplier(p, p.last_reward_block, b).v ELSE 0

\* C19: for a pool with a well-formed bonus window, a = last_reward_block and
\* two successive successful update_pool calls at b <= c with a nonzero supply,
\* the multipliers the two calls use add up to get_multiplier(a, c) of the pool
\* as it was before the first call.
C19_NoBlockTwiceOrSkipped ==
    [][(/\ Settled /\ result = "Ok" /\ call.supply # 0
        /\ WellFormed(old) /\ BonusAllPresent(old)
        /\ old.last_reward_block <= slot /\ slot <= slot'
        /\ call'.supply # 0 /\ result' = "Ok")
        => Used(old, slot) + Used(pool, slot')
             = get_multiplier(old, old.last_reward_block, slot').v]_vars
C19_Witness ==
    /\ Settled /\ result = "Ok" /\ call.supply # 0 /\ ncalls = 2
    /\ BonusCleared(old) /\ old.last_reward_block < old.end_block
    /\ slot > old.last_reward_block
    /\ pool.accrued_token_per_share > old.accrued_token_per_share

\* C20: from a pool that starts at last_reward_block = start_block, under
\* update_pool calls with non-decreasing block heights and any supply, the sum
\* of the rewards the successful calls computed never exceeds reward_per_block
\* times get_multiplier(start_block, end_block) of the initial schedule.
C20_EmissionBound == budget # NoneU => emitted <= budget

\* C12: every successful increase_counter call raises pool_counter by exactly
\* one, a call made at the largest u64 value fails with PoolCounterOverflow and
\* leaves pool_counter unchanged, and pool_counter never decreases.
C12_CounterMonotone ==
    [][/\ master'.pool_counter >= master.pool_counter
       /\ (call'.op = "increase_counter" /\ result' = "Ok")
            => master'.pool_counter = master.pool_counter + 1
       /\ (call'.op = "increase_counter" /\ master.pool_counter = U64_MAX)
            => (result' = "PoolCounterOverflow" /\ master' = master)]_vars
C12_Witness ==
    /\ call.op = "increase_counter" /\ result = "PoolCounterOverflow"
    /\ master.pool_counter = U64_MAX

\* C14: get_last_time_reward_applicable returns the smaller of now and
\* period_finish.
C14_ApplicableTimeIsMin ==
    call.op = "get_last_time_reward_applicable" => ret = Min(call.now, pool.period_finish)

\* C18: get_reward_per_token returns reward_per_token_stored when total_supply
\* is zero; otherwise it fails when the applicable time is before
\* last_update_time, and a value it returns is reward_per_token_stored +
\* (applicable_time - last_update_time) * reward_rate * precision_factor /
\* total_supply, with the precision factor get_precision_factor gives for the
\* pool's rank and the applicable time get_last_time_reward_applicable returns.
C18_RewardPerToken ==
    call.op = "get_reward_per_token" =>
        LET applicable_time == get_last_time_reward_applicable(pool, call.now)
            precision_factor == get_precision_factor(pool.precision_factor_rank)
        IN  IF pool.total_supply = 0
            THEN result = "Ok" /\ ret = pool.reward_per_token_stored
            ELSE IF applicable_time < pool.last_update_time
            THEN result # "Ok"
            ELSE result = "Ok" =>
                    ret = pool.reward_per_token_stored
                          + ((applicable_time - pool.last_update_time) * pool.reward_rate
                                * precision_factor) \div pool.total_supply

\* the k-th field of src carries a presence tag that is neither [0,0,0,0]
\* nor [1,0,0,0]
BadTag(src, k) == SubSeq(Ref(src, k), 1, 4) \notin {<<0, 0, 0, 0>>, <<1, 0, 0, 0>>}

\* C13: unpack_from_slice of the bytes pack_into_slice wrote for a record
\* returns a record equal to it in every field, and unpack_from_slice of bytes
\* with a presence tag other than [0,0,0,0] and [1,0,0,0] fails.
C13_RoundTrip ==
    [][/\ (call.op = "pack_into_slice" /\ call'.op = "unpack_from_slice")
            => (result' = "Ok" /\ unpacked' = pool)
       /\ (call'.op = "unpack_from_slice" /\ \E k \in 6..8 : BadTag(data, k))
            => result' = "InvalidAccountData"]_vars

====
